---- MODULE Spec2Model ----
(***************************************************************************)
(* Document generation, quota and ledger of the document toolkit           *)
(* (backend/models.py, backend/tools.py, backend/app.py, backend/utils.py). *)
(*                                                                         *)
(* Each generation request runs on one worker with its own ORM session:    *)
(* it loads the User row, evaluates can_create_document, renders the       *)
(* artifact(s), stages Document rows and commits.  Workers share the       *)
(* store (User and Document tables) and the generated-files folder.        *)
(***************************************************************************)
EXTENDS Integers, Sequences, FiniteSets, TLC

\* ---------------------------------------------------------------- bounds
MonthLen == 2            \* clock instants per calendar month
MaxRequests == 2         \* generation requests started in one behaviour
MaxDownloads == 1        \* download requests handled in one behaviour
NSuffix == 2             \* distinct values of the random file-name token
MaxCounterRequests == 3  \* requests of the single-user invoice scenario

\* ------------------------------------------------------ program constants
MonthlyLimit == 5        \* models.py: return monthly_docs < 5

InitClock == MonthLen            \* first instant of month 1
MaxClock == 2 * MonthLen         \* first instant of month 2

Users == {"A", "B"}
Workers == {"w1", "w2"}
SerialWorker == "w1"
Suffixes == 1 .. NSuffix
SeedCounts == {0, 4}             \* rows user A already owns when the run starts
None == 0                        \* a NULL timestamp; every real instant is >= 1

\* Strings that are stripped or slugified are sequences of characters.
NameA == <<"A">>
NameB == <<" ", "B">>
Blank == <<" ">>
Empty == <<>>
InvoiceNumber == <<"7">>
FullName == <<"A", " ", "L">>
BulkLists == { <<NameA, Empty, Blank, NameB>>, <<Blank>>, <<>> }
NoneText == <<"N", "o", "n", "e">>      \* str(None) inside an f-string

\* app.py create_app: the Template rows created with the default admin; the
\* id of a row is its position, is_active takes the column default.
default_templates ==
    << [name |-> "Modern Invoice", document_type |-> "invoice", is_premium |-> FALSE, is_active |-> TRUE],
       [name |-> "Corporate Invoice", document_type |-> "invoice", is_premium |-> TRUE, is_active |-> TRUE],
       [name |-> "Professional Resume", document_type |-> "resume", is_premium |-> FALSE, is_active |-> TRUE],
       [name |-> "Creative Resume", document_type |-> "resume", is_premium |-> TRUE, is_active |-> TRUE],
       [name |-> "Achievement Certificate", document_type |-> "certificate", is_premium |-> FALSE, is_active |-> TRUE],
       [name |-> "Completion Certificate", document_type |-> "certificate", is_premium |-> TRUE, is_active |-> TRUE] >>

TemplateIds(kind) ==
    {t \in 1 .. Len(default_templates) : default_templates[t].document_type = kind}

\* config.py: the credentials of the default administrator.
ADMIN_EMAIL == "admin@toolkit.com"
ADMIN_PASSWORD == "admin123"

\* werkzeug generate_password_hash / check_password_hash
generate_password_hash(password) == <<"hash", password>>
check_password_hash(password_hash, password) == password_hash = generate_password_hash(password)

\* Browsers, each holding one session cookie, and what they type as password.
Clients == {"c1", "c2"}
UserPassword == [u \in Users |-> IF u = "A" THEN "alpha" ELSE "beta"]
WrongPassword == "wrong"

\* session.clear(): neither user_id nor admin_id is in the session.
NoSession == [user_id |-> "none", admin_id |-> None]
NoReply == [client |-> "none", route |-> "none", status |-> "none", body |-> <<>>]

\* app.py create_app: Admin(email=ADMIN_EMAIL, ...) with set_password, and
\* Template(**template_data) for each default; id is the autoincrement key.
NewAdmin(id) ==
    [id |-> id, email |-> ADMIN_EMAIL,
     password_hash |-> generate_password_hash(ADMIN_PASSWORD), is_super_admin |-> TRUE]

NewTemplate(id, name, document_type, is_premium) ==
    [id |-> id, name |-> name, document_type |-> document_type,
     is_premium |-> is_premium, is_active |-> TRUE]

NextId(table) ==
    IF table = <<>> THEN 1
    ELSE 1 + (CHOOSE m \in {table[i].id : i \in 1 .. Len(table)} :
                 \A i \in 1 .. Len(table) : table[i].id <= m)

VARIABLES
    clock,                 \* datetime.utcnow()
    subscription_plan,     \* User.subscription_plan
    subscription_expires,  \* User.subscription_expires (None or an instant)
    documents_created,     \* User.documents_created, committed value
    documents,             \* the Document table, in insertion order
    files,                 \* paths present in GENERATED_FILES_FOLDER
    worker,                \* per worker: the request in flight and its session
    last_download,         \* outcome of the latest download request
    nreq,                  \* generation requests started so far
    ndl,                   \* download requests handled so far
    call,                  \* a composer helper applied on its own: input and output
    is_active,             \* User.is_active
    session,               \* per browser: the keys of its Flask session cookie
    templates,             \* the Template table, in insertion order
    admins,                \* the Admin table, in insertion order
    reply,                 \* the response to the latest site request
    nsite,                 \* site requests (login, admin, views) handled so far
    nstart                 \* runs of create_app on this store so far

\* The state that generation requests read but never write.
site == <<is_active, session, templates, admins, reply, nsite, nstart>>

vars == <<clock, subscription_plan, subscription_expires, documents_created,
          documents, files, worker, last_download, nreq, ndl, call, site>>

\* ------------------------------------------------------------ pure helpers
Month(t) == t \div MonthLen

rolling_window_start(t) == t - MonthLen

\* datetime.utcnow().replace(day=1, hour=0, minute=0, second=0, microsecond=0)
current_month_start(t) == t - (t % MonthLen)

RECURSIVE lstrip(_)
lstrip(s) == IF s = <<>> THEN s
             ELSE IF Head(s) = " " THEN lstrip(Tail(s)) ELSE s

RECURSIVE rstrip(_)
rstrip(s) == IF s = <<>> THEN s
             ELSE IF s[Len(s)] = " " THEN rstrip(SubSeq(s, 1, Len(s) - 1)) ELSE s

\* str.strip()
strip(s) == rstrip(lstrip(s))

\* str.replace(' ', '_')
replace_space(s) == [i \in 1 .. Len(s) |-> IF s[i] = " " THEN "_" ELSE s[i]]

\* f"{kind}_{discriminator}_{uuid.uuid4().hex[:8]}.{ext}" joined to the folder
FileName(kind, disc, suffix, ext) == <<kind, disc, suffix, ext>>

\* Rows of the Document table owned by user u.
RowsOf(u) == {i \in 1 .. Len(documents) : documents[i].user_id = u}

\* ----------------------------------------------------------------- User
is_premium_at_expiry(u) ==
    subscription_plan[u] = "premium"
        /\ subscription_expires[u] # None /\ subscription_expires[u] >= clock

is_premium(u) ==
    IF subscription_plan[u] = "premium"
    THEN IF subscription_expires[u] # None /\ subscription_expires[u] > clock
         THEN TRUE
         ELSE FALSE
    ELSE FALSE

\* Document.query.filter(user_id == self.id, created_at >= current_month_start).count()
monthly_docs(u) ==
    Cardinality({i \in 1 .. Len(documents) :
                    /\ documents[i].user_id = u
                    /\ documents[i].created_at >= current_month_start(clock)})

can_create_document_off_by_one(u) ==
    IF is_premium(u) THEN TRUE ELSE monthly_docs(u) <= MonthlyLimit

can_create_document(u) ==
    IF is_premium(u) THEN TRUE ELSE monthly_docs(u) < MonthlyLimit

\* ---------------------------------------------------------------- requests
\* The form of a POST.  payload tells how the fields the handler reads are
\* filled: "ok", "missing" (the field the file name is built from is absent:
\* invoice_number, full_name, recipient_name, content) or "malformed" (a field
\* handed to json.loads, float or int does not parse).
Form(kinds, formats, bulks, names, payloads, tids) ==
    [kind : kinds, format : formats, bulk_mode : bulks, bulk_names : names,
     payload : payloads, template_id : tids]

\* Well-formed requests without a template.
Requests ==
    Form({"invoice"}, {"pdf"}, {FALSE}, {<<>>}, {"ok"}, {None})
    \cup Form({"qrcode"}, {"png", "svg"}, {FALSE}, {<<>>}, {"ok"}, {None})
    \cup Form({"resume"}, {"pdf"}, {FALSE}, {<<>>}, {"ok"}, {None})
    \cup Form({"certificate"}, {"pdf"}, {FALSE}, {<<>>}, {"ok"}, {None})
    \cup Form({"certificate"}, {"pdf"}, {TRUE}, BulkLists, {"ok"}, {None})

\* Requests as any client can post them: any payload, any template id.
FormRequests ==
    Form({"invoice"}, {"pdf"}, {FALSE}, {<<>>}, {"ok", "missing", "malformed"},
         {None} \cup TemplateIds("invoice"))
    \cup Form({"qrcode"}, {"png"}, {FALSE}, {<<>>}, {"ok", "missing", "malformed"}, {None})
    \cup Form({"resume"}, {"pdf", "docx"}, {FALSE}, {<<>>}, {"ok", "missing", "malformed"},
              {None} \cup TemplateIds("resume"))
    \cup Form({"certificate"}, {"pdf"}, {FALSE}, {<<>>}, {"ok", "missing"},
              {None} \cup TemplateIds("certificate"))
    \cup Form({"certificate"}, {"pdf"}, {TRUE}, {<<NameA, Empty, Blank, NameB>>},
              {"ok", "malformed"}, {None})

InvoiceRequest ==
    [kind |-> "invoice", format |-> "pdf", bulk_mode |-> FALSE, bulk_names |-> <<>>,
     payload |-> "ok", template_id |-> None]

NoRequest ==
    [kind |-> "none", format |-> "none", bulk_mode |-> FALSE, bulk_names |-> <<>>,
     payload |-> "ok", template_id |-> None]

IdleWorker ==
    [pc |-> "idle", user |-> "none", req |-> NoRequest, loaded |-> 0,
     staged |-> <<>>, idx |-> 1, result |-> "none", raised |-> "none",
     had |-> -1, seen |-> -1, checked_at |-> None, wrote |-> {}, overlap |-> {}]

InFlight(w) == worker[w].pc # "idle"
Settled == \A w \in Workers : ~InFlight(w)

\* A Document row as staged by db.session.add; created_at and uuid are
\* column defaults filled in when the row is inserted.
NewDocument(u, kind, path, ftype, tid) ==
    [uuid |-> None, user_id |-> u, document_type |-> kind, file_path |-> path,
     file_type |-> ftype, template_used |-> tid]

SeedRow(i, t) ==
    [uuid |-> i, user_id |-> "A", document_type |-> "invoice",
     file_path |-> FileName("invoice", InvoiceNumber, 0 - i, "pdf"),
     file_type |-> "pdf", template_used |-> None,
     created_at |-> t, downloaded_count |-> 0]

NoCall == [fn |-> "none", arg |-> <<>>, done |-> FALSE, out |-> <<>>]

PlanChoices == {<<"free", None>>, <<"free", InitClock + 1>>,
                <<"premium", None>>, <<"premium", InitClock + 1>>}

\* The site after create_app has run once on a fresh store; both users have
\* signed up and each is logged in from a browser of their own.
Installed ==
    /\ is_active = [u \in Users |-> TRUE]
    /\ session = [c \in Clients |->
                     [NoSession EXCEPT !.user_id = IF c = "c1" THEN "A" ELSE "B"]]
    /\ templates = [i \in 1 .. Len(default_templates) |->
                       NewTemplate(i, default_templates[i].name,
                                   default_templates[i].document_type,
                                   default_templates[i].is_premium)]
    /\ admins = <<NewAdmin(1)>>
    /\ reply = NoReply
    /\ nsite = 0
    /\ nstart = 1

Init ==
    /\ clock = InitClock
    /\ \E pa \in PlanChoices :
          /\ subscription_plan = [u \in Users |-> IF u = "A" THEN pa[1] ELSE "free"]
          /\ subscription_expires = [u \in Users |-> IF u = "A" THEN pa[2] ELSE None]
    /\ \E n \in SeedCounts :
          /\ documents = [i \in 1 .. n |-> SeedRow(i, InitClock)]
          /\ files = {SeedRow(i, InitClock).file_path : i \in 1 .. n}
          /\ documents_created = [u \in Users |-> IF u = "A" THEN n ELSE 0]
    /\ worker = [w \in Workers |-> IdleWorker]
    /\ last_download = [user |-> "none", uuid |-> 0, outcome |-> "none", sent |-> <<>>]
    /\ nreq = 0
    /\ ndl = 0
    /\ call = NoCall
    /\ Installed

\* ------------------------------------------------------- generation request
\* login_required passed; get_current_user() loads the User row into the
\* request's session.
BeginRequest(w, u, r) ==
    /\ ~InFlight(w)
    /\ nreq' = nreq + 1
    /\ worker' = [v \in Workers |->
          IF v = w
          THEN [IdleWorker EXCEPT !.pc = "check", !.user = u, !.req = r,
                                  !.loaded = documents_created[u],
                                  !.had = IF is_premium(u) THEN -1 ELSE monthly_docs(u),
                                  !.overlap = {x \in Workers \ {w} : InFlight(x)}]
          ELSE IF InFlight(v)
               THEN [worker[v] EXCEPT !.overlap = @ \cup {w}]
               ELSE [worker[v] EXCEPT !.overlap = @ \ {w}]]
    /\ UNCHANGED <<clock, subscription_plan, subscription_expires, documents_created,
                   documents, files, last_download, ndl, call, site>>

QuotaCheck_admitting_all(w) ==
    /\ worker[w].pc = "check"
    /\ LET u == worker[w].user
           seen == IF is_premium(u) THEN -1 ELSE monthly_docs(u)
       IN  worker' = [worker EXCEPT
              ![w] = [@ EXCEPT !.pc = IF worker[w].req.kind = "certificate" THEN "gate" ELSE "render",
                               !.seen = seen, !.checked_at = clock]]
    /\ UNCHANGED <<clock, subscription_plan, subscription_expires, documents_created,
                   documents, files, last_download, nreq, ndl, call, site>>

\* if not user.can_create_document(): return 403
QuotaCheck(w) ==
    /\ worker[w].pc = "check"
    /\ LET u == worker[w].user
           seen == IF is_premium(u) THEN -1 ELSE monthly_docs(u)
       IN  worker' = [worker EXCEPT
              ![w] = IF can_create_document(u)
                     THEN [@ EXCEPT !.pc = IF worker[w].req.kind = "certificate" THEN "gate" ELSE "render",
                                    !.seen = seen, !.checked_at = clock]
                     ELSE [@ EXCEPT !.pc = "idle", !.result = "quota", !.req = NoRequest,
                                    !.loaded = 0, !.seen = seen, !.checked_at = clock]]
    /\ UNCHANGED <<clock, subscription_plan, subscription_expires, documents_created,
                   documents, files, last_download, nreq, ndl, call, site>>

BulkGate_open(w) ==
    /\ worker[w].pc = "gate"
    /\ worker' = [worker EXCEPT ![w] = [@ EXCEPT !.pc = "render"]]
    /\ UNCHANGED <<clock, subscription_plan, subscription_expires, documents_created,
                   documents, files, last_download, nreq, ndl, call, site>>

\* certificate_creator: if is_bulk and not user.is_premium(): return 403
BulkGate(w) ==
    /\ worker[w].pc = "gate"
    /\ worker' = [worker EXCEPT
          ![w] = IF @.req.bulk_mode /\ ~is_premium(@.user)
                 THEN [@ EXCEPT !.pc = "idle", !.result = "premium_required",
                                !.req = NoRequest, !.loaded = 0]
                 ELSE [@ EXCEPT !.pc = "render"]]
    /\ UNCHANGED <<clock, subscription_plan, subscription_expires, documents_created,
                   documents, files, last_download, nreq, ndl, call, site>>

\* ------------------------------------------------------------- composers
\* Each composer is given the target path and yields the set of files it
\* leaves in the folder.
generate_invoice_pdf(path) == {path}        \* doc.build(story)

generate_resume_pdf(path) == {path}         \* doc.build(story)

generate_certificate_pdf(path) == {path}    \* c.save()

\* tools.py calls generate_qr_code(qr_content, file_path, size, format).  The
\* name is bound to the second definition in utils.py,
\* generate_qr_code(data, size, format, error_correction, ...): file_path
\* arrives as size and the integer size as format, so format.lower() raises,
\* the handler inside prints and returns None.  Neither branch of that
\* definition saves the image anyway.
generate_qr_code(path) == {}

\* The format of the file a composer leaves at the path: the three PDF
\* composers build a PDF whatever the name of the path, and generate_qr_code
\* as bound saves no image.
produced_format(kind, format) ==
    CASE kind = "invoice" -> "pdf"         \* SimpleDocTemplate(file_path, pagesize=A4)
      [] kind = "resume" -> "pdf"          \* SimpleDocTemplate(file_path, pagesize=A4)
      [] kind = "certificate" -> "pdf"     \* canvas.Canvas(file_path, pagesize=A4)
      [] OTHER -> "none"

IsBulk(r) == r.bulk_mode /\ r.bulk_names # <<>>

\* url_for('download_document', document_uuid=...): the route
\* /download/<document_uuid> needs the value; the URL builder drops a None
\* value and then finds no rule to build, so it raises BuildError.
url_for(document_uuid) ==
    IF document_uuid = None THEN "BuildError" ELSE <<"download", document_uuid>>

\* The artifact the request composes next: target path, declared format and
\* the files the composer writes.  s is the random token of the file name.
invoice_artifact(r, s) ==
    LET number == IF r.payload = "missing" THEN NoneText ELSE InvoiceNumber
        path == FileName("invoice", number, s, "pdf")
    IN  [path |-> path, file_type |-> "pdf", written |-> generate_invoice_pdf(path)]

qrcode_artifact(r, s) ==
    LET path == FileName("qrcode", <<>>, s, r.format)
    IN  [path |-> path, file_type |-> r.format, written |-> generate_qr_code(path)]

resume_artifact(r, s) ==
    LET path == FileName("resume", replace_space(FullName), s, r.format)
    IN  [path |-> path, file_type |-> r.format, written |-> generate_resume_pdf(path)]

certificate_artifact(name, s) ==
    LET path == FileName("certificate", replace_space(name), s, "pdf")
    IN  [path |-> path, file_type |-> "pdf", written |-> generate_certificate_pdf(path)]

Artifact(w, s) ==
    LET r == worker[w].req
    IN  CASE r.kind = "invoice" -> invoice_artifact(r, s)
          [] r.kind = "qrcode" -> qrcode_artifact(r, s)
          [] r.kind = "resume" -> resume_artifact(r, s)
          [] OTHER -> IF IsBulk(r)
                      THEN certificate_artifact(r.bulk_names[worker[w].idx], s)
                      ELSE certificate_artifact(NameA, s)

\* except Exception as e: db.session.rollback(); return 500 -- and the 500 of
\* an exception that escapes the handler.  exc names what was raised.
Failed(rec, exc) ==
    [rec EXCEPT !.staged = <<>>, !.idx = 1, !.req = NoRequest, !.loaded = 0,
                !.pc = "idle", !.result = "error", !.raised = exc]

\* The handler from the parsed form up to db.session.add(document) and, in
\* certificate_creator, the url_for that follows it: one artifact per step
\* (one iteration of the bulk loop).
\*  - a blank bulk name is skipped (if name.strip());
\*  - resume and single certificate call .replace on the absent name, which
\*    raises AttributeError before anything is written;
\*  - certificate_creator calls url_for with document.uuid before the flush
\*    that assigns the column default, so the file is written, the row is
\*    added to the session and BuildError ends the request.
Render(w, s) ==
    /\ worker[w].pc = "render"
    /\ worker[w].req.payload # "malformed"
    /\ LET r == worker[w].req
           a == Artifact(w, s)
           row == NewDocument(worker[w].user, r.kind, a.path, a.file_type, r.template_id)
           last == ~IsBulk(r) \/ worker[w].idx = Len(r.bulk_names)
           skip == IsBulk(r) /\ strip(r.bulk_names[worker[w].idx]) = <<>>
           attr_error == /\ ~IsBulk(r)
                         /\ r.kind \in {"resume", "certificate"}
                         /\ r.payload = "missing"
           build_error == r.kind = "certificate" /\ url_for(row.uuid) = "BuildError"
       IN  CASE skip ->
                  /\ files' = files
                  /\ worker' = [worker EXCEPT
                        ![w] = [@ EXCEPT !.idx = @ + 1,
                                         !.pc = IF last THEN "commit" ELSE "render"]]
             [] ~skip /\ attr_error ->
                  /\ files' = files
                  /\ worker' = [worker EXCEPT ![w] = Failed(@, "AttributeError")]
             [] ~skip /\ ~attr_error /\ build_error ->
                  /\ files' = files \cup a.written
                  /\ worker' = [worker EXCEPT
                        ![w] = Failed([@ EXCEPT !.wrote = @ \cup a.written], "BuildError")]
             [] OTHER ->
                  /\ files' = files \cup a.written
                  /\ worker' = [worker EXCEPT
                        ![w] = [@ EXCEPT !.staged = Append(@, row),
                                         !.wrote = @ \cup a.written,
                                         !.idx = @ + 1,
                                         !.pc = IF last THEN "commit" ELSE "render"]]
    /\ UNCHANGED <<clock, subscription_plan, subscription_expires, documents_created,
                   documents, last_download, nreq, ndl, call, site>>

\* json.loads(data.get(...)), float(...) or int(...) on a field that does not
\* parse: the exception is raised while the handler builds its data
\* dictionary, before the try block, and the request ends with a 500.
ParseFail(w) ==
    /\ worker[w].pc = "render"
    /\ worker[w].req.payload = "malformed"
    /\ worker' = [worker EXCEPT ![w] = Failed(@, "ValueError")]
    /\ UNCHANGED <<clock, subscription_plan, subscription_expires, documents_created,
                   documents, files, last_download, nreq, ndl, call, site>>

\* An exception inside the try block while the current artifact is composed,
\* before its file is saved: except Exception: db.session.rollback(); return
\* 500.
RenderFail(w) ==
    /\ worker[w].pc = "render"
    /\ worker' = [worker EXCEPT ![w] = Failed(@, "fault")]
    /\ UNCHANGED <<clock, subscription_plan, subscription_expires, documents_created,
                   documents, files, last_download, nreq, ndl, call, site>>

\* The rows the flush inserts: uuid and created_at are column defaults
\* evaluated at insert time.
Inserted(staged, base) ==
    [i \in 1 .. Len(staged) |->
        [uuid |-> base + i, user_id |-> staged[i].user_id,
         document_type |-> staged[i].document_type,
         file_path |-> staged[i].file_path, file_type |-> staged[i].file_type,
         template_used |-> staged[i].template_used,
         created_at |-> clock, downloaded_count |-> 0]]

\* user.documents_created += n on the loaded row; the flush writes the new
\* attribute value (UPDATE user SET documents_created = <value>), and writes
\* nothing when the attribute did not change.
CounterAfter(w) ==
    IF Len(worker[w].staged) = 0
    THEN documents_created[worker[w].user]
    ELSE worker[w].loaded + Len(worker[w].staged)

\* user.documents_created += ...; db.session.commit(); return success
Commit(w) ==
    /\ worker[w].pc = "commit"
    /\ documents' = documents \o Inserted(worker[w].staged, Len(documents))
    /\ documents_created' = [documents_created EXCEPT ![worker[w].user] = CounterAfter(w)]
    /\ worker' = [worker EXCEPT
          ![w] = [@ EXCEPT !.staged = <<>>, !.idx = 1, !.req = NoRequest, !.loaded = 0,
                           !.pc = "idle", !.result = "success"]]
    /\ UNCHANGED <<clock, subscription_plan, subscription_expires, files,
                   last_download, nreq, ndl, call, site>>

\* db.session.commit() raises: except Exception: db.session.rollback()
CommitFail(w) ==
    /\ worker[w].pc = "commit"
    /\ worker' = [worker EXCEPT ![w] = Failed(@, "fault")]
    /\ UNCHANGED <<clock, subscription_plan, subscription_expires, documents_created,
                   documents, files, last_download, nreq, ndl, call, site>>

\* ---------------------------------------------------------------- download
get_by_uuid_only(id, u) ==
    {i \in 1 .. Len(documents) : documents[i].uuid = id}

download_document_counting(u, id) ==
    /\ ndl < MaxDownloads
    /\ ndl' = ndl + 1
    /\ LET found == {i \in 1 .. Len(documents) :
                        documents[i].uuid = id /\ documents[i].user_id = u}
       IN  IF found = {}
           THEN /\ last_download' = [user |-> u, uuid |-> id, outcome |-> "not_found",
                                     sent |-> <<>>]
                /\ UNCHANGED <<documents, documents_created>>
           ELSE LET i == CHOOSE j \in found : \A k \in found : j <= k
                IN  /\ documents' = [documents EXCEPT ![i].downloaded_count = @ + 1]
                    /\ documents_created' = [documents_created EXCEPT ![u] = @ + 1]
                    /\ last_download' =
                          IF documents[i].file_path \in files
                          THEN [user |-> u, uuid |-> id, outcome |-> "sent",
                                sent |-> documents[i].file_path]
                          ELSE [user |-> u, uuid |-> id, outcome |-> "file_missing",
                                sent |-> <<>>]
    /\ UNCHANGED <<clock, subscription_plan, subscription_expires,
                   files, worker, nreq, call, site>>

\* Document.query.filter_by(uuid=document_uuid, user_id=user.id).first()
get_by_public_id(id, u) ==
    {i \in 1 .. Len(documents) : documents[i].uuid = id /\ documents[i].user_id = u}

\* app.py download_document for a logged-in user u.
download_document(u, id) ==
    /\ ndl < MaxDownloads
    /\ ndl' = ndl + 1
    /\ LET found == get_by_public_id(id, u)
       IN  IF found = {}
           THEN /\ last_download' = [user |-> u, uuid |-> id, outcome |-> "not_found",
                                     sent |-> <<>>]
                /\ UNCHANGED documents
           ELSE LET i == CHOOSE j \in found : \A k \in found : j <= k
                IN  /\ documents' = [documents EXCEPT ![i].downloaded_count = @ + 1]
                    /\ last_download' =
                          IF documents[i].file_path \in files
                          THEN [user |-> u, uuid |-> id, outcome |-> "sent",
                                sent |-> documents[i].file_path]
                          ELSE [user |-> u, uuid |-> id, outcome |-> "file_missing",
                                sent |-> <<>>]
    /\ UNCHANGED <<clock, subscription_plan, subscription_expires, documents_created,
                   files, worker, nreq, call, site>>

\* ------------------------------------------------------------------- clock
Tick ==
    /\ clock < MaxClock
    /\ clock' = clock + 1
    /\ UNCHANGED <<subscription_plan, subscription_expires, documents_created,
                   documents, files, worker, last_download, nreq, ndl, call, site>>

\* Requests of any users overlapping on the workers.
Next ==
    \/ \E w \in Workers, u \in Users, r \in Requests :
          nreq < MaxRequests /\ BeginRequest(w, u, r)
    \/ \E w \in Workers : QuotaCheck(w)
    \/ \E w \in Workers : BulkGate(w)
    \/ \E w \in Workers, s \in Suffixes : Render(w, s)
    \/ \E w \in Workers : RenderFail(w)
    \/ \E w \in Workers : Commit(w)
    \/ \E w \in Workers : CommitFail(w)
    \/ Tick

Spec == Init /\ [][Next]_vars

\* Requests handled one at a time by a single worker, with downloads between
\* them.
SerialNext ==
    \/ \E u \in Users, r \in Requests :
          nreq < MaxRequests /\ BeginRequest(SerialWorker, u, r)
    \/ \E w \in Workers : QuotaCheck(w)
    \/ \E w \in Workers : BulkGate(w)
    \/ \E w \in Workers, s \in Suffixes : Render(w, s)
    \/ \E w \in Workers : RenderFail(w)
    \/ \E w \in Workers : Commit(w)
    \/ \E w \in Workers : CommitFail(w)
    \/ \E u \in Users, id \in 0 .. Len(documents) : Settled /\ download_document(u, id)
    \/ Tick

SpecSerial == Init /\ [][SerialNext]_vars

\* Requests with any payload and any template id, handled one at a time.
FormsNext ==
    \/ \E u \in Users, r \in FormRequests :
          nreq < MaxRequests /\ BeginRequest(SerialWorker, u, r)
    \/ \E w \in Workers : QuotaCheck(w)
    \/ \E w \in Workers : BulkGate(w)
    \/ \E w \in Workers : ParseFail(w)
    \/ \E w \in Workers, s \in Suffixes : Render(w, s)
    \/ \E w \in Workers : RenderFail(w)
    \/ \E w \in Workers : Commit(w)
    \/ \E w \in Workers : CommitFail(w)
    \/ Tick

SpecForms == Init /\ [][FormsNext]_vars

\* One user posting invoices from both workers.
CounterNext ==
    \/ \E w \in Workers :
          nreq < MaxCounterRequests /\ BeginRequest(w, "A", InvoiceRequest)
    \/ \E w \in Workers : QuotaCheck(w)
    \/ \E w \in Workers, s \in Suffixes : Render(w, s)
    \/ \E w \in Workers : RenderFail(w)
    \/ \E w \in Workers : Commit(w)
    \/ \E w \in Workers : CommitFail(w)

SpecCounter == Init /\ [][CounterNext]_vars

\* ------------------------------------------------------- composer helpers
\* A form field: data.get(key) is the text sent, or None when the key is
\* absent.  Text is a sequence of pieces, joined by concatenation.
Text(t) == [present |-> TRUE, text |-> t]
Absent == [present |-> FALSE, text |-> <<>>]

\* str(value) as an f-string renders it.
fmt(v) == IF v.present THEN v.text ELSE <<"None">>

\* Python truth value of a field: None and '' are false.
truthy(v) == v.present /\ v.text # <<>>

\* Money and rates are floats in the code; here a value is the integer
\* number of 1/Scale units, which is exact for the inputs drawn below.
Scale == 100 * 100

\* x * (p / 100)
percent_of(x, p) == (x * p) \div 100

\* float(item['quantity']) * float(item['rate'])
amount(item) == item.quantity * item.rate * Scale

RECURSIVE subtotal_of(_)
subtotal_of(items) ==
    IF items = <<>> THEN 0 ELSE amount(Head(items)) + subtotal_of(Tail(items))

invoice_totals_tax_first(invoice_data) ==
    LET subtotal == subtotal_of(invoice_data.items)
        tax_amount == percent_of(subtotal, invoice_data.tax_rate)
        discount_amount == percent_of(subtotal + tax_amount, invoice_data.discount)
        after_discount == subtotal - discount_amount
        total == after_discount + tax_amount
    IN  [subtotal |-> subtotal, discount_amount |-> discount_amount,
         after_discount |-> after_discount, tax_amount |-> tax_amount, total |-> total]

\* utils.py generate_invoice_pdf, "Calculate totals"
invoice_totals(invoice_data) ==
    LET subtotal == subtotal_of(invoice_data.items)
        discount_amount == percent_of(subtotal, invoice_data.discount)
        after_discount == subtotal - discount_amount
        tax_amount == percent_of(after_discount, invoice_data.tax_rate)
        total == after_discount + tax_amount
    IN  [subtotal |-> subtotal, discount_amount |-> discount_amount,
         after_discount |-> after_discount, tax_amount |-> tax_amount, total |-> total]

\* data_json = json.dumps(invoice_data): the stored payload as key/value
\* pairs, and json.loads of it.
json_dumps(invoice_data) ==
    << <<"items", invoice_data.items>>, <<"tax_rate", invoice_data.tax_rate>>,
       <<"discount", invoice_data.discount>> >>

json_loads(pairs) ==
    LET value(key) == (CHOOSE i \in 1 .. Len(pairs) : pairs[i][1] = key)
    IN  [items |-> pairs[value("items")][2], tax_rate |-> pairs[value("tax_rate")][2],
         discount |-> pairs[value("discount")][2]]

qr_content_single_terminator(data) ==
    CASE data.type = "wifi" ->
            Text(<<"WIFI:T:">> \o fmt(data.wifi_security) \o <<";S:">> \o fmt(data.wifi_ssid)
                 \o <<";P:">> \o fmt(data.wifi_password) \o <<";">>)
      [] data.type = "vcard" ->
            Text(<<"BEGIN:VCARD", "\n", "VERSION:3.0", "\n", "FN:">> \o fmt(data.vcard_name)
                 \o <<"\n", "TEL:">> \o fmt(data.vcard_phone)
                 \o <<"\n", "EMAIL:">> \o fmt(data.vcard_email)
                 \o <<"\n", "ORG:">> \o fmt(data.vcard_org)
                 \o <<"\n", "END:VCARD">>)
      [] data.type = "upi" ->
            Text(<<"upi://pay?pa=">> \o fmt(data.upi_id) \o <<"&pn=">> \o fmt(data.upi_name)
                 \o <<"&am=">> \o fmt(data.upi_amount))
      [] OTHER -> data.content

\* tools.py qrcode_generator, "Handle different QR types"
qr_content(data) ==
    CASE data.type = "wifi" ->
            Text(<<"WIFI:T:">> \o fmt(data.wifi_security) \o <<";S:">> \o fmt(data.wifi_ssid)
                 \o <<";P:">> \o fmt(data.wifi_password) \o <<";;">>)
      [] data.type = "vcard" ->
            Text(<<"BEGIN:VCARD", "\n", "VERSION:3.0", "\n", "FN:">> \o fmt(data.vcard_name)
                 \o <<"\n", "TEL:">> \o fmt(data.vcard_phone)
                 \o <<"\n", "EMAIL:">> \o fmt(data.vcard_email)
                 \o <<"\n", "ORG:">> \o fmt(data.vcard_org)
                 \o <<"\n", "END:VCARD">>)
      [] data.type = "upi" ->
            Text(<<"upi://pay?pa=">> \o fmt(data.upi_id) \o <<"&pn=">> \o fmt(data.upi_name)
                 \o <<"&am=">> \o fmt(data.upi_amount))
      [] OTHER -> data.content

\* qr_data['error_correction'] = data.get('error_correction', 'M')
error_correction_of(data) ==
    IF data.error_correction.present THEN data.error_correction.text ELSE <<"M">>

\* generate_qr_code(qr_content, file_path, qr_data['size'], qr_data['format'])
\* as bound by the second definition in utils.py: the requested level is not
\* among the arguments, the parameter error_correction receives the format
\* and is not read; QRCode is built with ERROR_CORRECT_M, and format.lower()
\* on the integer size raises, so no image is returned.
qr_code_call(qr_data) ==
    LET data == qr_data.content
        size == qr_data.file_path
        format == qr_data.size
        error_correction == qr_data.format
    IN  [level |-> <<"M">>, image |-> Absent]

resume_story_education_first(resume_data) ==
    (IF truthy(resume_data.summary) THEN <<"PROFESSIONAL SUMMARY">> ELSE <<>>)
    \o (IF resume_data.education # <<>> THEN <<"EDUCATION">> ELSE <<>>)
    \o (IF resume_data.experience # <<>> THEN <<"WORK EXPERIENCE">> ELSE <<>>)
    \o (IF resume_data.skills # <<>> THEN <<"SKILLS">> ELSE <<>>)
    \o (IF resume_data.projects # <<>> THEN <<"PROJECTS">> ELSE <<>>)
    \o (IF resume_data.certifications # <<>> THEN <<"CERTIFICATIONS">> ELSE <<>>)

\* utils.py generate_resume_pdf: the Heading2 paragraphs appended to story,
\* in the order they are appended.
resume_story(resume_data) ==
    (IF truthy(resume_data.summary) THEN <<"PROFESSIONAL SUMMARY">> ELSE <<>>)
    \o (IF resume_data.experience # <<>> THEN <<"WORK EXPERIENCE">> ELSE <<>>)
    \o (IF resume_data.education # <<>> THEN <<"EDUCATION">> ELSE <<>>)
    \o (IF resume_data.skills # <<>> THEN <<"SKILLS">> ELSE <<>>)
    \o (IF resume_data.projects # <<>> THEN <<"PROJECTS">> ELSE <<>>)
    \o (IF resume_data.certifications # <<>> THEN <<"CERTIFICATIONS">> ELSE <<>>)

\* ---- inputs of the helpers
ItemLists ==
    { <<>>,
      <<[quantity |-> 2, rate |-> 100]>>,
      <<[quantity |-> 2, rate |-> 100], [quantity |-> 1, rate |-> 50]>>,
      <<[quantity |-> 1, rate |-> 50], [quantity |-> 3, rate |-> 7]>> }

InvoiceInputs == [items : ItemLists, discount : {0, 10, 100}, tax_rate : {0, 5, 18}]

Opt(t) == {Text(t), Absent}

QrBlank ==
    [type |-> "text", content |-> Absent,
     wifi_security |-> Absent, wifi_ssid |-> Absent, wifi_password |-> Absent,
     vcard_name |-> Absent, vcard_phone |-> Absent, vcard_email |-> Absent,
     vcard_org |-> Absent, upi_id |-> Absent, upi_name |-> Absent, upi_amount |-> Absent]

QrInputs ==
    { [QrBlank EXCEPT !.type = "wifi", !.content = c, !.wifi_security = a,
                      !.wifi_ssid = b, !.wifi_password = d] :
          c \in Opt(<<"hello">>), a \in Opt(<<"WPA">>), b \in Opt(<<"Home">>),
          d \in Opt(<<"secret">>) }
    \cup { [QrBlank EXCEPT !.type = "vcard", !.vcard_name = a, !.vcard_phone = b,
                           !.vcard_email = c, !.vcard_org = d] :
          a \in Opt(<<"Ann">>), b \in Opt(<<"555">>), c \in Opt(<<"a@x.in">>),
          d \in Opt(<<"Org">>) }
    \cup { [QrBlank EXCEPT !.type = "upi", !.upi_id = a, !.upi_name = b, !.upi_amount = c] :
          a \in Opt(<<"ann@upi">>), b \in Opt(<<"Ann">>), c \in Opt(<<"10">>) }
    \cup { [QrBlank EXCEPT !.type = t, !.content = c, !.wifi_ssid = b] :
          t \in {"text", "url", "email"}, c \in Opt(<<"hello">>) \cup {Text(<<>>)},
          b \in Opt(<<"Home">>) }

QrCodeInputs ==
    [content : {Text(<<"hello">>)}, file_path : {FileName("qrcode", <<>>, 1, "png")},
     size : {300}, format : {"png", "svg"},
     error_correction : {Absent, Text(<<"L">>), Text(<<"M">>), Text(<<"Q">>), Text(<<"H">>)}]

\* tools.py qrcode_generator: qr_data as built from the form, then
\* data_json = json.dumps({**qr_data, 'content': qr_content}) as key/value
\* pairs.  The wifi_*, vcard_* and upi_* fields of the form are not in
\* qr_data, and the content key holds the derived string.
qr_data_json(post) ==
    << <<"type", post.data.type>>, <<"content", qr_content(post.data)>>,
       <<"size", post.size>>, <<"format", post.format>>,
       <<"error_correction", error_correction_of(post)>> >>

\* json.loads of a QR row's data_json, read as the form of a request: a key
\* that is not in the snapshot is absent (data.get gives None).
json_loads_qr(pairs) ==
    LET at(key) == pairs[CHOOSE i \in 1 .. Len(pairs) : pairs[i][1] = key][2]
    IN  [data |-> [QrBlank EXCEPT !.type = at("type"), !.content = at("content")],
         size |-> at("size"), format |-> at("format"),
         error_correction |-> Text(at("error_correction"))]

\* What generate_qr_code is asked to render for a form.
qr_composition(post) ==
    [content |-> qr_content(post.data), size |-> post.size, format |-> post.format]

\* tools.py certificate_creator, bulk loop: cert_data = certificate_data.copy()
\* with recipient_name = name.strip(), stored as json.dumps(cert_data), one
\* per name that is not blank.
cert_data_json(certificate_data) ==
    LET names == SelectSeq(certificate_data.bulk_names, LAMBDA n : strip(n) # <<>>)
    IN  [k \in 1 .. Len(names) |->
            << <<"recipient_name", Text(strip(names[k]))>>,
               <<"course_name", certificate_data.course_name>>,
               <<"organization", certificate_data.organization>>,
               <<"bulk_names", certificate_data.bulk_names>> >>]

json_loads_certificate(pairs) ==
    LET at(key) == pairs[CHOOSE i \in 1 .. Len(pairs) : pairs[i][1] = key][2]
    IN  [recipient_name |-> at("recipient_name"), course_name |-> at("course_name"),
         organization |-> at("organization"), bulk_names |-> at("bulk_names")]

\* utils.py generate_certificate_pdf: the fields drawn on the page.
certificate_fields(cert_data) ==
    [recipient_name |-> cert_data.recipient_name, course_name |-> cert_data.course_name,
     organization |-> cert_data.organization]

QrPosts ==
    [data : QrInputs, size : {300}, format : {"png", "svg"},
     error_correction : {Absent, Text(<<"H">>)}]

CertificatePosts ==
    [recipient_name : {Absent}, course_name : {Text(<<"TLA">>)},
     organization : Opt(<<"Org">>), bulk_names : BulkLists]

Entries == {<<>>, <<"x">>}

ResumeInputs ==
    [summary : {Absent, Text(<<>>), Text(<<"s">>)}, experience : Entries,
     education : Entries, skills : Entries, projects : Entries, certifications : Entries]

\* The application at rest: no user has a document, no request is running.
AtRest ==
    /\ clock = InitClock
    /\ subscription_plan = [u \in Users |-> "free"]
    /\ subscription_expires = [u \in Users |-> None]
    /\ documents_created = [u \in Users |-> 0]
    /\ documents = <<>>
    /\ files = {}
    /\ worker = [w \in Workers |-> IdleWorker]
    /\ last_download = [user |-> "none", uuid |-> 0, outcome |-> "none", sent |-> <<>>]
    /\ nreq = 0
    /\ ndl = 0

InitHelpers ==
    /\ AtRest
    /\ Installed
    /\ \/ \E a \in InvoiceInputs : call = [NoCall EXCEPT !.fn = "invoice_totals", !.arg = a]
       \/ \E a \in QrInputs : call = [NoCall EXCEPT !.fn = "qr_content", !.arg = a]
       \/ \E a \in QrCodeInputs : call = [NoCall EXCEPT !.fn = "generate_qr_code", !.arg = a]
       \/ \E a \in ResumeInputs : call = [NoCall EXCEPT !.fn = "generate_resume_pdf", !.arg = a]
       \/ \E a \in QrPosts : call = [NoCall EXCEPT !.fn = "qr_data_json", !.arg = a]
       \/ \E a \in CertificatePosts : call = [NoCall EXCEPT !.fn = "cert_data_json", !.arg = a]

Apply(fn, out) ==
    /\ call.fn = fn
    /\ ~call.done
    /\ call' = [call EXCEPT !.done = TRUE, !.out = out]
    /\ UNCHANGED <<clock, subscription_plan, subscription_expires, documents_created,
                   documents, files, worker, last_download, nreq, ndl, site>>

\* The totals as composed, and as re-derived from the stored payload.
ComposeInvoice ==
    Apply("invoice_totals",
          [composed |-> invoice_totals(call.arg),
           rederived |-> invoice_totals(json_loads(json_dumps(call.arg)))])

DeriveQrContent == Apply("qr_content", qr_content(call.arg))

RenderQrCode == Apply("generate_qr_code", qr_code_call(call.arg))

ComposeResume == Apply("generate_resume_pdf", resume_story(call.arg))

\* The QR snapshot as stored, what was composed, and what composing from the
\* decoded snapshot gives.
StoreQrSnapshot ==
    Apply("qr_data_json",
          [data_json |-> qr_data_json(call.arg),
           composed |-> qr_composition(call.arg),
           recomposed |-> qr_composition(json_loads_qr(qr_data_json(call.arg)))])

\* The same for each certificate of a bulk request.
StoreCertificateSnapshots ==
    Apply("cert_data_json",
          [k \in 1 .. Len(cert_data_json(call.arg)) |->
              LET cert_data == [call.arg EXCEPT
                                   !.recipient_name =
                                       Text(strip(SelectSeq(call.arg.bulk_names,
                                                            LAMBDA n : strip(n) # <<>>)[k]))]
              IN  [data_json |-> cert_data_json(call.arg)[k],
                   composed |-> certificate_fields(cert_data),
                   recomposed |-> certificate_fields(
                                     json_loads_certificate(cert_data_json(call.arg)[k]))]])

HelpersNext ==
    \/ ComposeInvoice
    \/ DeriveQrContent
    \/ RenderQrCode
    \/ ComposeResume
    \/ StoreQrSnapshot
    \/ StoreCertificateSnapshots

SpecHelpers == InitHelpers /\ [][HelpersNext]_vars

\* -------------------------------------------------------------------- site
\* Login, the admin blueprint and the read-only views.  Each request comes
\* from a browser c, reads and writes that browser's session, and is answered
\* with a reply.
MaxSiteOps == 2          \* site requests handled in one behaviour
MaxSiteRequests == 1     \* generation requests of the site scenario
MaxStarts == 2           \* runs of create_app in one behaviour

Answer(c, route, status, body) ==
    [client |-> c, route |-> route, status |-> status, body |-> body]

LoginForms ==
    { <<"A", UserPassword["A"]>>, <<"A", WrongPassword>>,
      <<"B", UserPassword["B"]>>, <<"nobody", WrongPassword>> }

AdminLoginForms ==
    { <<ADMIN_EMAIL, ADMIN_PASSWORD>>, <<ADMIN_EMAIL, WrongPassword>>,
      <<"A", UserPassword["A"]>> }

TemplateForms ==
    { [name |-> "Custom", document_type |-> "invoice", is_premium |-> TRUE, is_active |-> TRUE],
      [name |-> "Custom", document_type |-> "invoice", is_premium |-> FALSE, is_active |-> FALSE],
      [name |-> "", document_type |-> "invoice", is_premium |-> FALSE, is_active |-> TRUE] }

TemplateTargets == {2, 99}

\* tools.py login_required and app.py is_logged_in: 'user_id' in session
login_required(c) == session[c].user_id # "none"

\* auth.py login
login(c, email, password) ==
    /\ nsite' = nsite + 1
    /\ IF email \notin Users \/ password # UserPassword[email]
       THEN /\ reply' = Answer(c, "auth.login", "invalid", <<email>>)
            /\ UNCHANGED session
       ELSE IF ~is_active[email]
            THEN /\ reply' = Answer(c, "auth.login", "deactivated", <<email>>)
                 /\ UNCHANGED session
            ELSE /\ session' = [session EXCEPT ![c].user_id = email]
                 /\ reply' = Answer(c, "auth.login", "ok", <<email>>)
    /\ UNCHANGED <<clock, subscription_plan, subscription_expires, documents_created,
                   documents, files, worker, last_download, nreq, ndl, call,
                   is_active, templates, admins, nstart>>

\* auth.py logout and admin.py logout: session.clear()
logout(c, route) ==
    /\ nsite' = nsite + 1
    /\ session' = [session EXCEPT ![c] = NoSession]
    /\ reply' = Answer(c, route, "ok", <<>>)
    /\ UNCHANGED <<clock, subscription_plan, subscription_expires, documents_created,
                   documents, files, worker, last_download, nreq, ndl, call,
                   is_active, templates, admins, nstart>>

\* admin.py login
admin_login(c, email, password) ==
    /\ nsite' = nsite + 1
    /\ LET found == {i \in 1 .. Len(admins) : admins[i].email = email}
       IN  IF found = {}
              \/ \A i \in found : ~check_password_hash(admins[i].password_hash, password)
           THEN /\ reply' = Answer(c, "admin.login", "invalid", <<email, password>>)
                /\ UNCHANGED session
           ELSE LET i == CHOOSE j \in found : \A k \in found : j <= k
                IN  /\ session' = [session EXCEPT ![c].admin_id = admins[i].id]
                    /\ reply' = Answer(c, "admin.login", "ok", <<email, password>>)
    /\ UNCHANGED <<clock, subscription_plan, subscription_expires, documents_created,
                   documents, files, worker, last_download, nreq, ndl, call,
                   is_active, templates, admins, nstart>>

admin_required_any_login(c) == session[c].admin_id # None \/ session[c].user_id # "none"

\* admin.py admin_required: 'admin_id' in session, else redirect to admin.login
admin_required(c) == session[c].admin_id # None

Redirected(c, route) == Answer(c, route, "redirect_admin_login", <<>>)

toggle_user_status_purging(c, u) ==
    /\ nsite' = nsite + 1
    /\ IF ~admin_required(c)
       THEN /\ reply' = Redirected(c, "admin.toggle_user_status")
            /\ UNCHANGED <<is_active, documents>>
       ELSE /\ is_active' = [is_active EXCEPT ![u] = ~@]
            /\ documents' = SelectSeq(documents, LAMBDA d : d.user_id # u)
            /\ reply' = Answer(c, "admin.toggle_user_status", "ok", <<u>>)
    /\ UNCHANGED <<clock, subscription_plan, subscription_expires, documents_created,
                   files, worker, last_download, nreq, ndl, call,
                   session, templates, admins, nstart>>

\* admin.py toggle_user_status
toggle_user_status(c, u) ==
    /\ nsite' = nsite + 1
    /\ IF ~admin_required(c)
       THEN /\ reply' = Redirected(c, "admin.toggle_user_status")
            /\ UNCHANGED is_active
       ELSE /\ is_active' = [is_active EXCEPT ![u] = ~@]
            /\ reply' = Answer(c, "admin.toggle_user_status", "ok", <<u>>)
    /\ UNCHANGED <<clock, subscription_plan, subscription_expires, documents_created,
                   documents, files, worker, last_download, nreq, ndl, call,
                   session, templates, admins, nstart>>

\* admin.py create_template (POST)
create_template(c, form) ==
    /\ nsite' = nsite + 1
    /\ IF ~admin_required(c)
       THEN /\ reply' = Redirected(c, "admin.create_template")
            /\ UNCHANGED templates
       ELSE IF form.name = "" \/ form.document_type = ""
            THEN /\ reply' = Answer(c, "admin.create_template", "form", <<>>)
                 /\ UNCHANGED templates
            ELSE /\ templates' = Append(templates,
                                        NewTemplate(NextId(templates), form.name,
                                                    form.document_type, form.is_premium))
                 /\ reply' = Answer(c, "admin.create_template", "ok", <<>>)
    /\ UNCHANGED <<clock, subscription_plan, subscription_expires, documents_created,
                   documents, files, worker, last_download, nreq, ndl, call,
                   is_active, session, admins, nstart>>

\* Template.query.get_or_404(template_id)
get_or_404(id) == {i \in 1 .. Len(templates) : templates[i].id = id}

\* admin.py edit_template (POST)
edit_template(c, id, form) ==
    /\ nsite' = nsite + 1
    /\ IF ~admin_required(c)
       THEN /\ reply' = Redirected(c, "admin.edit_template")
            /\ UNCHANGED templates
       ELSE IF get_or_404(id) = {}
            THEN /\ reply' = Answer(c, "admin.edit_template", "not_found", <<id>>)
                 /\ UNCHANGED templates
            ELSE LET i == CHOOSE j \in get_or_404(id) : TRUE
                 IN  /\ templates' = [templates EXCEPT
                           ![i] = [@ EXCEPT !.name = form.name,
                                            !.document_type = form.document_type,
                                            !.is_premium = form.is_premium,
                                            !.is_active = form.is_active]]
                     /\ reply' = Answer(c, "admin.edit_template", "ok", <<id>>)
    /\ UNCHANGED <<clock, subscription_plan, subscription_expires, documents_created,
                   documents, files, worker, last_download, nreq, ndl, call,
                   is_active, session, admins, nstart>>

\* admin.py delete_template
delete_template(c, id) ==
    /\ nsite' = nsite + 1
    /\ IF ~admin_required(c)
       THEN /\ reply' = Redirected(c, "admin.delete_template")
            /\ UNCHANGED templates
       ELSE IF get_or_404(id) = {}
            THEN /\ reply' = Answer(c, "admin.delete_template", "not_found", <<id>>)
                 /\ UNCHANGED templates
            ELSE /\ templates' = SelectSeq(templates, LAMBDA t : t.id # id)
                 /\ reply' = Answer(c, "admin.delete_template", "ok", <<id>>)
    /\ UNCHANGED <<clock, subscription_plan, subscription_expires, documents_created,
                   documents, files, worker, last_download, nreq, ndl, call,
                   is_active, session, admins, nstart>>

\* admin.py api_stats
api_stats(c) ==
    /\ nsite' = nsite + 1
    /\ reply' = IF ~admin_required(c)
                THEN Redirected(c, "admin.api_stats")
                ELSE Answer(c, "admin.api_stats", "ok",
                            [total_users |-> Cardinality(Users),
                             active_users |-> Cardinality({u \in Users : is_active[u]}),
                             total_documents |-> Len(documents)])
    /\ UNCHANGED <<clock, subscription_plan, subscription_expires, documents_created,
                   documents, files, worker, last_download, nreq, ndl, call,
                   is_active, session, templates, admins, nstart>>

\* ---- views of a logged-in user
\* order_by(Document.created_at.desc()): rows of equal timestamp keep the
\* table order.
RECURSIVE order_by_created_at_desc(_)
order_by_created_at_desc(S) ==
    IF S = {} THEN <<>>
    ELSE LET i == CHOOSE j \in S : \A k \in S :
                     \/ documents[j].created_at > documents[k].created_at
                     \/ documents[j].created_at = documents[k].created_at /\ j <= k
         IN  <<documents[i]>> \o order_by_created_at_desc(S \ {i})

documents_of_any_user(u) == order_by_created_at_desc(DOMAIN documents)

\* Document.query.filter_by(user_id=user.id).order_by(Document.created_at.desc()).all()
documents_of(u) == order_by_created_at_desc(RowsOf(u))

\* app.py dashboard
dashboard(c) ==
    /\ nsite' = nsite + 1
    /\ reply' = IF ~login_required(c)
                THEN Answer(c, "dashboard", "redirect_login", <<>>)
                ELSE Answer(c, "dashboard", "ok", documents_of(session[c].user_id))
    /\ UNCHANGED <<clock, subscription_plan, subscription_expires, documents_created,
                   documents, files, worker, last_download, nreq, ndl, call,
                   is_active, session, templates, admins, nstart>>

api_user_stats_reserving(c) ==
    /\ nsite' = nsite + 1
    /\ IF ~login_required(c)
       THEN /\ reply' = Answer(c, "api_user_stats", "not_authenticated", <<>>)
            /\ UNCHANGED documents_created
       ELSE LET u == session[c].user_id
            IN  /\ reply' = Answer(c, "api_user_stats", "ok",
                                   [user |-> u,
                                    documents_created |-> documents_created[u],
                                    subscription_plan |-> subscription_plan[u],
                                    is_premium |-> is_premium(u),
                                    can_create_document |-> can_create_document(u),
                                    documents_this_month |-> monthly_docs(u)])
                /\ documents_created' =
                      [documents_created EXCEPT
                          ![u] = IF can_create_document(u) THEN @ + 1 ELSE @]
    /\ UNCHANGED <<clock, subscription_plan, subscription_expires,
                   documents, files, worker, last_download, nreq, ndl, call,
                   is_active, session, templates, admins, nstart>>

\* app.py api_user_stats
api_user_stats(c) ==
    /\ nsite' = nsite + 1
    /\ reply' = IF ~login_required(c)
                THEN Answer(c, "api_user_stats", "not_authenticated", <<>>)
                ELSE LET u == session[c].user_id
                     IN  Answer(c, "api_user_stats", "ok",
                                [user |-> u,
                                 documents_created |-> documents_created[u],
                                 subscription_plan |-> subscription_plan[u],
                                 is_premium |-> is_premium(u),
                                 can_create_document |-> can_create_document(u),
                                 documents_this_month |-> monthly_docs(u)])
    /\ UNCHANGED <<clock, subscription_plan, subscription_expires, documents_created,
                   documents, files, worker, last_download, nreq, ndl, call,
                   is_active, session, templates, admins, nstart>>

\* Users and the administrator at their browsers, requests handled one at a
\* time.  The administrator changes a user's status between requests.
SiteNext ==
    \/ \E c \in Clients, f \in LoginForms : nsite < MaxSiteOps /\ login(c, f[1], f[2])
    \/ \E c \in Clients, route \in {"auth.logout", "admin.logout"} :
          nsite < MaxSiteOps /\ logout(c, route)
    \/ \E c \in Clients, f \in AdminLoginForms :
          nsite < MaxSiteOps /\ admin_login(c, f[1], f[2])
    \/ \E c \in Clients, u \in Users :
          nsite < MaxSiteOps /\ Settled /\ toggle_user_status(c, u)
    \/ \E c \in Clients, f \in TemplateForms : nsite < MaxSiteOps /\ create_template(c, f)
    \/ \E c \in Clients, id \in TemplateTargets, f \in TemplateForms :
          nsite < MaxSiteOps /\ edit_template(c, id, f)
    \/ \E c \in Clients, id \in TemplateTargets :
          nsite < MaxSiteOps /\ delete_template(c, id)
    \/ \E c \in Clients : nsite < MaxSiteOps /\ api_stats(c)
    \/ \E c \in Clients : nsite < MaxSiteOps /\ dashboard(c)
    \/ \E c \in Clients : nsite < MaxSiteOps /\ api_user_stats(c)
    \/ \E c \in Clients :
          /\ login_required(c)
          /\ nreq < MaxSiteRequests
          /\ BeginRequest(SerialWorker, session[c].user_id, InvoiceRequest)
    \/ \E w \in Workers : QuotaCheck(w)
    \/ \E w \in Workers, s \in Suffixes : Render(w, s)
    \/ \E w \in Workers : RenderFail(w)
    \/ \E w \in Workers : Commit(w)
    \/ \E w \in Workers : CommitFail(w)
    \/ \E c \in Clients, id \in 0 .. Len(documents) :
          Settled /\ login_required(c) /\ download_document(session[c].user_id, id)
    \/ Tick

\* A store in use: A owns a row of last month and one of this month, B owns
\* a row of last month; both are on the free plan.
SiteLedger ==
    << SeedRow(1, InitClock - 1),
       [SeedRow(2, InitClock - 1) EXCEPT !.user_id = "B"],
       SeedRow(3, InitClock) >>

InitSite ==
    /\ clock = InitClock
    /\ subscription_plan = [u \in Users |-> "free"]
    /\ subscription_expires = [u \in Users |-> None]
    /\ documents = SiteLedger
    /\ files = {SiteLedger[i].file_path : i \in 1 .. Len(SiteLedger)}
    /\ documents_created = [u \in Users |-> IF u = "A" THEN 2 ELSE 1]
    /\ worker = [w \in Workers |-> IdleWorker]
    /\ last_download = [user |-> "none", uuid |-> 0, outcome |-> "none", sent |-> <<>>]
    /\ nreq = 0
    /\ ndl = 0
    /\ call = NoCall
    /\ Installed

SpecSite == InitSite /\ [][SiteNext]_vars

\* ---------------------------------------------------------------- start-up
create_app_seeding_every_run ==
    /\ nstart' = nstart + 1
    /\ LET admin == {i \in 1 .. Len(admins) : admins[i].email = ADMIN_EMAIL}
       IN  /\ admins' = IF admin = {} THEN Append(admins, NewAdmin(NextId(admins)))
                        ELSE admins
           /\ templates' = templates \o
                 [i \in 1 .. Len(default_templates) |->
                     NewTemplate(NextId(templates) + i - 1, default_templates[i].name,
                                 default_templates[i].document_type,
                                 default_templates[i].is_premium)]
    /\ UNCHANGED <<clock, subscription_plan, subscription_expires, documents_created,
                   documents, files, worker, last_download, nreq, ndl, call,
                   is_active, session, reply, nsite>>

\* app.py create_app, the block under app.app_context(): the default
\* administrator and, with it, the default templates are added when no Admin
\* row has the configured email.
create_app ==
    /\ nstart' = nstart + 1
    /\ LET admin == {i \in 1 .. Len(admins) : admins[i].email = ADMIN_EMAIL}
       IN  IF admin = {}
           THEN /\ admins' = Append(admins, NewAdmin(NextId(admins)))
                /\ templates' = templates \o
                      [i \in 1 .. Len(default_templates) |->
                          NewTemplate(NextId(templates) + i - 1, default_templates[i].name,
                                      default_templates[i].document_type,
                                      default_templates[i].is_premium)]
           ELSE UNCHANGED <<admins, templates>>
    /\ UNCHANGED <<clock, subscription_plan, subscription_expires, documents_created,
                   documents, files, worker, last_download, nreq, ndl, call,
                   is_active, session, reply, nsite>>

\* A fresh database: create_all has made empty tables, no browser holds a
\* session.
InitStartup ==
    /\ AtRest
    /\ call = NoCall
    /\ is_active = [u \in Users |-> TRUE]
    /\ session = [c \in Clients |-> NoSession]
    /\ templates = <<>>
    /\ admins = <<>>
    /\ reply = NoReply
    /\ nsite = 0
    /\ nstart = 0

\* The process is started, and started again between requests; once it is
\* up users log in and generate documents.
StartupNext ==
    \/ Settled /\ nstart < MaxStarts /\ create_app
    \/ \E c \in Clients, f \in LoginForms :
          nstart >= 1 /\ nsite < MaxSiteOps /\ login(c, f[1], f[2])
    \/ \E c \in Clients, f \in AdminLoginForms :
          nstart >= 1 /\ nsite < MaxSiteOps /\ admin_login(c, f[1], f[2])
    \/ \E c \in Clients :
          /\ nstart >= 1
          /\ login_required(c)
          /\ nreq < MaxSiteRequests
          /\ BeginRequest(SerialWorker, session[c].user_id, InvoiceRequest)
    \/ \E w \in Workers : QuotaCheck(w)
    \/ \E w \in Workers, s \in Suffixes : Render(w, s)
    \/ \E w \in Workers : RenderFail(w)
    \/ \E w \in Workers : Commit(w)
    \/ \E w \in Workers : CommitFail(w)

SpecStartup == InitStartup /\ [][StartupNext]_vars

\* ================================================================= claims
Done(w) == ~InFlight(w) /\ worker[w].result # "none"

\* The rows of u created at or after the first instant of the clock's month.
FirstInstantOfMonth(t) == Month(t) * MonthLen
RowsThisMonth(u) ==
    {i \in RowsOf(u) : documents[i].created_at >= FirstInstantOfMonth(clock)}

PremiumEligible(u) ==
    /\ subscription_plan[u] = "premium"
    /\ subscription_expires[u] # None
    /\ subscription_expires[u] > clock

\* C1: two generation requests of one free-tier user that overlap in time,
\* both begun while the user had exactly 4 documents this month, end with
\* exactly one success and one quota rejection, never with two successes.
C1_NoDoubleSpend ==
    \A w1, w2 \in Workers :
        ( /\ w1 # w2
          /\ Done(w1) /\ Done(w2)
          /\ w2 \in worker[w1].overlap
          /\ worker[w1].user = worker[w2].user
          /\ worker[w1].had = MonthlyLimit - 1
          /\ worker[w2].had = MonthlyLimit - 1
          /\ Month(worker[w1].checked_at) = Month(clock)
          /\ Month(worker[w2].checked_at) = Month(clock)
          /\ worker[w1].result \in {"success", "quota"}
          /\ worker[w2].result \in {"success", "quota"} )
        => {worker[w1].result, worker[w2].result} = {"success", "quota"}

\* C2: at every settled state each user's documents_created equals the
\* number of Document rows the user owns.
C2_CounterEqualsRows ==
    Settled => \A u \in Users : documents_created[u] = Cardinality(RowsOf(u))

\* C3: documents_created never decreases from one committed value to the
\* next.
C3_CounterMonotone ==
    [][\A u \in Users : documents_created'[u] >= documents_created[u]]_vars

\* C4: for a user who is not premium-eligible can_create_document is true
\* exactly when fewer than 5 of the user's own rows were created at or after
\* the first instant of the current month (true with 4, false with 5), and
\* the handlers return the quota error exactly on a false result.
C4_QuotaRule ==
    /\ \A u \in Users :
          ~PremiumEligible(u) =>
             /\ can_create_document(u) <=> (Cardinality(RowsThisMonth(u)) < 5)
             /\ Cardinality(RowsThisMonth(u)) = 4 => can_create_document(u)
             /\ Cardinality(RowsThisMonth(u)) = 5 => ~can_create_document(u)
    /\ \A w \in Workers :
          worker[w].seen # -1 =>
             (worker[w].result = "quota" <=> worker[w].seen >= 5)

C4_Witness ==
    \E w1, w2 \in Workers :
        /\ worker[w1].result = "quota" /\ worker[w1].seen = 5
        /\ worker[w2].result = "success" /\ worker[w2].seen = 4
        /\ worker[w1].user = worker[w2].user
        /\ ~PremiumEligible(worker[w1].user)

\* C5: a user is premium-eligible exactly when the plan is premium and the
\* expiry is set and strictly later than the clock, and a premium-eligible
\* user passes can_create_document whatever the number of documents.
C5_PremiumRule ==
    \A u \in Users :
        /\ is_premium(u) <=> PremiumEligible(u)
        /\ PremiumEligible(u) => can_create_document(u)

C5_Witness ==
    \E w \in Workers :
        /\ worker[w].pc \in {"gate", "render", "commit"}
        /\ worker[w].checked_at = clock
        /\ PremiumEligible(worker[w].user)
        /\ Cardinality(RowsThisMonth(worker[w].user)) >= 5

\* C6: when the clock enters the next calendar month, the rows created
\* before do not count any more: every user who is not premium-eligible has
\* a monthly count of 0 and passes can_create_document, whatever the count
\* was in the month before.
C6_PriorMonthNeverCounts ==
    [][(Month(clock') > Month(clock) /\ documents' = documents)
          => \A u \in Users : monthly_docs(u)' = 0 /\ can_create_document(u)']_vars

C6_Witness ==
    \E w \in Workers :
        /\ Done(w) /\ worker[w].result = "quota"
        /\ Month(worker[w].checked_at) < Month(clock)
        /\ ~PremiumEligible(worker[w].user)
        /\ Cardinality({i \in RowsOf(worker[w].user) :
                           Month(documents[i].created_at) = Month(worker[w].checked_at)}) >= 5
        /\ can_create_document(worker[w].user)

\* C7: a request that ends in failure leaves the Document table and every
\* counter as they were, and a request that ends in success grows its user's
\* row count and counter by the same number.
C7_AtomicRecord ==
    [][\A w \in Workers :
          (InFlight(w) /\ ~InFlight(w)') =>
             IF worker'[w].result = "success"
             THEN Cardinality(RowsOf(worker[w].user))' - Cardinality(RowsOf(worker[w].user))
                    = documents_created'[worker[w].user] - documents_created[worker[w].user]
             ELSE documents' = documents /\ documents_created' = documents_created]_vars

\* C8: every committed Document row has its rendered file at file_path.
C8_CommittedRowHasFile ==
    \A i \in 1 .. Len(documents) : documents[i].file_path \in files

\* C9: after a request has ended in failure the folder holds no file that
\* the request wrote.
C9_NoOrphanFile ==
    \A w \in Workers :
        (Done(w) /\ worker[w].result = "error") => worker[w].wrote \cap files = {}

\* C10: a download by a user who does not own the document with the given
\* uuid answers not-found, sends no file and leaves the Document table
\* unchanged.
C10_OwnerScopedLookup ==
    [][( /\ ndl' = ndl + 1
         /\ \E i \in 1 .. Len(documents) :
               /\ documents[i].uuid = last_download'.uuid
               /\ documents[i].user_id # last_download'.user )
          => /\ last_download'.outcome = "not_found"
             /\ last_download'.sent = <<>>
             /\ documents' = documents]_vars

C10_Witness ==
    /\ last_download.outcome = "not_found"
    /\ last_download.user = "B"
    /\ \E i \in 1 .. Len(documents) :
          /\ documents[i].uuid = last_download.uuid
          /\ documents[i].user_id = "A"
          /\ documents[i].downloaded_count = 0

\* C11: a download changes nothing but the downloaded_count of the document
\* it found, which grows by exactly one: the owner's documents_created, the
\* rows of the ledger and their creation timestamps, the stored files and the
\* result of can_create_document of every user stay as they were.
C11_DownloadFrame ==
    [][(ndl' = ndl + 1) =>
          LET hit == {i \in 1 .. Len(documents) :
                         /\ documents[i].uuid = last_download'.uuid
                         /\ documents[i].user_id = last_download'.user}
          IN  /\ documents_created' = documents_created
              /\ files' = files
              /\ Len(documents') = Len(documents)
              /\ Cardinality(hit) <= 1
              /\ \A i \in 1 .. Len(documents) :
                    /\ [documents'[i] EXCEPT !.downloaded_count = 0]
                          = [documents[i] EXCEPT !.downloaded_count = 0]
                    /\ documents'[i].downloaded_count
                          = documents[i].downloaded_count + (IF i \in hit THEN 1 ELSE 0)
              /\ \A u \in Users :
                    /\ monthly_docs(u)' = monthly_docs(u)
                    /\ can_create_document(u)' = can_create_document(u)]_vars

C11_Witness ==
    /\ last_download.outcome = "sent"
    /\ ~PremiumEligible(last_download.user)
    /\ Cardinality(RowsThisMonth(last_download.user)) = MonthlyLimit - 1
    /\ can_create_document(last_download.user)
    /\ \E i \in 1 .. Len(documents) :
          /\ documents[i].uuid = last_download.uuid
          /\ documents[i].downloaded_count = 1

\* The entries of a name list that are not blank or whitespace-only.
NonBlank(names) == SelectSeq(names, LAMBDA n : strip(n) # <<>>)

\* C12: a bulk certificate request that passed the premium gate and met no
\* storage fault ends in success with one artifact and one ledger row per
\* non-blank entry of the name list, in list order, each row carrying the
\* request's template, and documents_created grown by that number.
C12_BulkFanOut ==
    [][\A w \in Workers :
          ( /\ InFlight(w) /\ ~InFlight(w)'
            /\ IsBulk(worker[w].req)
            /\ worker[w].pc \in {"render", "commit"}
            /\ worker'[w].raised # "fault" )
          => LET names == NonBlank(worker[w].req.bulk_names)
                 n == Len(names)
                 u == worker[w].user
                 base == Len(documents)
             IN  /\ worker'[w].result = "success"
                 /\ Len(documents') = base + n
                 /\ \A k \in 1 .. n :
                       /\ documents'[base + k].user_id = u
                       /\ documents'[base + k].document_type = "certificate"
                       /\ documents'[base + k].file_path[2] = replace_space(names[k])
                       /\ documents'[base + k].file_path \in files'
                       /\ documents'[base + k].template_used = worker[w].req.template_id
                 /\ documents_created'[u] = documents_created[u] + n]_vars

\* C13: a bulk certificate request of a user who is not premium-eligible is
\* rejected at the quota check or at the premium gate, never composed: it
\* writes no file, adds no ledger row and leaves every counter as it was.
C13_BulkPremiumGated ==
    [][\A w \in Workers :
          ( /\ worker[w].req.bulk_mode
            /\ worker[w].pc \in {"check", "gate"}
            /\ worker'[w].pc # worker[w].pc
            /\ ~PremiumEligible(worker[w].user) )
          => /\ \/ worker[w].pc = "check" /\ worker'[w].pc = "gate"
                \/ ~InFlight(w)' /\ worker'[w].result \in {"quota", "premium_required"}
             /\ worker'[w].wrote = {}
             /\ worker'[w].staged = <<>>
             /\ files' = files
             /\ documents' = documents
             /\ documents_created' = documents_created]_vars

C13_Witness ==
    \E w \in Workers :
        /\ Done(w) /\ worker[w].result = "premium_required"
        /\ subscription_plan[worker[w].user] = "premium"
        /\ ~PremiumEligible(worker[w].user)
        /\ worker[w].wrote = {}

\* C14: a request that is rejected for quota, or whose payload has a
\* malformed or missing required field, ends with an error, having written
\* no artifact file, added no ledger row and changed no counter.
C14_ErrorsBeforeIO ==
    [][\A w \in Workers :
          ( /\ InFlight(w) /\ ~InFlight(w)'
            /\ \/ worker'[w].result = "quota"
               \/ worker[w].req.payload \in {"missing", "malformed"} )
          => /\ worker'[w].result # "success"
             /\ worker'[w].wrote = {}
             /\ documents' = documents
             /\ documents_created' = documents_created]_vars

\* C15: every ledger row that names a template names an active one, and a
\* premium-gated one only if the row's owner was premium-eligible when the
\* row was created.
C15_TemplateEligible ==
    \A i \in 1 .. Len(documents) :
        LET d == documents[i]
            t == d.template_used
        IN  t # None =>
               /\ default_templates[t].is_active
               /\ default_templates[t].is_premium =>
                     /\ subscription_plan[d.user_id] = "premium"
                     /\ subscription_expires[d.user_id] # None
                     /\ subscription_expires[d.user_id] > d.created_at

\* The file names a request in flight has given to its artifacts.
NamesOf(w) == {worker[w].staged[i].file_path : i \in 1 .. Len(worker[w].staged)}

\* C16: requests running at the same time on different workers never hold
\* the same file name, whatever their kind and discriminator.
C16_UniqueNames ==
    \A w1, w2 \in Workers :
        (w1 # w2 /\ InFlight(w1) /\ InFlight(w2)) => NamesOf(w1) \cap NamesOf(w2) = {}

\* The sum of quantity x rate over the items, in whole units.
RECURSIVE SumOfAmounts(_)
SumOfAmounts(items) ==
    IF items = <<>> THEN 0
    ELSE items[1].quantity * items[1].rate + SumOfAmounts(Tail(items))

InvoiceExample ==
    [items |-> <<[quantity |-> 2, rate |-> 100], [quantity |-> 1, rate |-> 50]>>,
     discount |-> 10, tax_rate |-> 5]

\* C17: the invoice totals are the chain on unrounded values: subtotal is the
\* sum of quantity x rate, discount is subtotal x discount/100, tax is
\* (subtotal - discount) x tax_rate/100, total is (subtotal - discount) + tax;
\* items (2 at 100, 1 at 50), discount 10 and tax 5 give 250, 25, 225, 11.25
\* and 236.25; and the totals derived again from the stored payload are the
\* same.
C17_InvoiceTotals ==
    (call.fn = "invoice_totals" /\ call.done) =>
        LET a == call.arg
            o == call.out.composed
        IN  /\ o.subtotal = Scale * SumOfAmounts(a.items)
            /\ 100 * o.discount_amount = o.subtotal * a.discount
            /\ o.after_discount = o.subtotal - o.discount_amount
            /\ 100 * o.tax_amount = o.after_discount * a.tax_rate
            /\ o.total = o.after_discount + o.tax_amount
            /\ call.out.rederived = o
            /\ a = InvoiceExample =>
                  /\ o.subtotal = 250 * Scale
                  /\ o.discount_amount = 25 * Scale
                  /\ o.after_discount = 225 * Scale
                  /\ 100 * o.tax_amount = 1125 * Scale
                  /\ 100 * o.total = 23625 * Scale

C17_Witness ==
    /\ call.fn = "invoice_totals" /\ call.done
    /\ call.arg = InvoiceExample
    /\ 100 * call.out.composed.total = 23625 * Scale
    /\ call.out.rederived.total = call.out.composed.total

WifiExample ==
    [QrBlank EXCEPT !.type = "wifi", !.wifi_security = Text(<<"WPA">>),
                    !.wifi_ssid = Text(<<"Home">>), !.wifi_password = Text(<<"secret">>)]

\* C18: the QR content is derived from the typed payload: wifi gives
\* WIFI:T:<security>;S:<ssid>;P:<password>;; (WPA, Home, secret give
\* WIFI:T:WPA;S:Home;P:secret;;), vcard and upi give their fixed schemas, and
\* text or any other type gives the content field unchanged.
C18_QrContent ==
    (call.fn = "qr_content" /\ call.done) =>
        LET d == call.arg
            o == call.out
        IN  /\ d.type = "wifi" =>
                  /\ o.present
                  /\ o.text = <<"WIFI:T:">> \o fmt(d.wifi_security) \o <<";S:">>
                                 \o fmt(d.wifi_ssid) \o <<";P:">>
                                 \o fmt(d.wifi_password) \o <<";;">>
            /\ d = WifiExample =>
                  o.text = <<"WIFI:T:", "WPA", ";S:", "Home", ";P:", "secret", ";;">>
            /\ d.type = "vcard" =>
                  /\ o.present
                  /\ o.text = <<"BEGIN:VCARD", "\n", "VERSION:3.0", "\n", "FN:">>
                                 \o fmt(d.vcard_name) \o <<"\n", "TEL:">>
                                 \o fmt(d.vcard_phone) \o <<"\n", "EMAIL:">>
                                 \o fmt(d.vcard_email) \o <<"\n", "ORG:">>
                                 \o fmt(d.vcard_org) \o <<"\n", "END:VCARD">>
            /\ d.type = "upi" =>
                  /\ o.present
                  /\ o.text = <<"upi://pay?pa=">> \o fmt(d.upi_id) \o <<"&pn=">>
                                 \o fmt(d.upi_name) \o <<"&am=">> \o fmt(d.upi_amount)
            /\ d.type \notin {"wifi", "vcard", "upi"} => o = d.content

C18_Witness ==
    /\ call.fn = "qr_content" /\ call.done
    /\ call.arg.type = "wifi"
    /\ call.out.text = <<"WIFI:T:", "WPA", ";S:", "Home", ";P:", "secret", ";;">>

\* C19: the error-correction level the code is rendered with is the level
\* the request asked for, and M when the request names none.
C19_RequestedLevel ==
    (call.fn = "generate_qr_code" /\ call.done) =>
        call.out.level = error_correction_of(call.arg)

SectionOrder ==
    <<"summary", "experience", "education", "skills", "projects", "certifications">>

HeaderOf(section) ==
    CASE section = "summary" -> "PROFESSIONAL SUMMARY"
      [] section = "experience" -> "WORK EXPERIENCE"
      [] section = "education" -> "EDUCATION"
      [] section = "skills" -> "SKILLS"
      [] section = "projects" -> "PROJECTS"
      [] section = "certifications" -> "CERTIFICATIONS"

SectionNonEmpty(a, section) ==
    IF section = "summary"
    THEN a.summary.present /\ Len(a.summary.text) > 0
    ELSE Len(a[section]) > 0

\* C20: the section headers of a resume are exactly the subsequence of
\* summary, experience, education, skills, projects, certifications whose
\* payload section is non-empty, in that order.
C20_ResumeSections ==
    (call.fn = "generate_resume_pdf" /\ call.done) =>
        LET kept == SelectSeq(SectionOrder, LAMBDA sec : SectionNonEmpty(call.arg, sec))
        IN  call.out = [i \in 1 .. Len(kept) |-> HeaderOf(kept[i])]

C20_Witness ==
    /\ call.fn = "generate_resume_pdf" /\ call.done
    /\ call.arg.summary = Text(<<>>)
    /\ call.arg.skills = <<>>
    /\ call.out = <<"WORK EXPERIENCE", "EDUCATION", "CERTIFICATIONS">>

\* A step that handles one site request, answered on the given route.
Served(route) == nsite' = nsite + 1 /\ reply'.route = route

\* C21: the listing of a user is exactly the ledger rows the user owns, none
\* of another user's, ordered by non-increasing creation timestamp, after any
\* generations by any users.
C21_ListingOwnedNewestFirst ==
    [][(Served("dashboard") /\ reply'.status = "ok") =>
          LET u == session[reply'.client].user_id
              l == reply'.body
          IN  /\ Len(l) = Cardinality(RowsOf(u))
              /\ {l[i] : i \in 1 .. Len(l)} = {documents[i] : i \in RowsOf(u)}
              /\ \A i \in 1 .. Len(l) : l[i].user_id = u
              /\ \A i, j \in 1 .. Len(l) : i < j => l[i].created_at >= l[j].created_at]_vars

C21_Witness ==
    /\ reply.route = "dashboard" /\ reply.status = "ok"
    /\ Len(reply.body) = 3
    /\ reply.body[1].uuid > Len(SiteLedger)
    /\ reply.body[1].created_at > reply.body[3].created_at
    /\ \E i \in 1 .. Len(documents) :
          documents[i].user_id # reply.body[1].user_id

\* C22: a ledger row is changed only by a download, which adds to its
\* download counter; no request of a user or of the administrator changes a
\* row's owner, kind, path, format, template or creation timestamp, and none
\* removes a row.
C22_RowsImmutable ==
    [][/\ Len(documents') >= Len(documents)
       /\ \A i \in 1 .. Len(documents) :
             /\ [documents'[i] EXCEPT !.downloaded_count = 0]
                   = [documents[i] EXCEPT !.downloaded_count = 0]
             /\ documents'[i].downloaded_count >= documents[i].downloaded_count
             /\ documents'[i] # documents[i] => ndl' = ndl + 1]_vars

C22_Witness ==
    /\ Len(documents) > Len(SiteLedger)
    /\ \E u \in Users : ~is_active[u] /\ RowsOf(u) # {}
    /\ \E i \in 1 .. Len(documents) : documents[i].downloaded_count = 1
    /\ \A i \in 1 .. Len(SiteLedger) :
          [documents[i] EXCEPT !.downloaded_count = 0] = SiteLedger[i]

\* C24: evaluating the quota reserves nothing: the statistics view and the
\* quota check of a generation request change no ledger row, no counter and
\* no file, the view reports the value can_create_document has, and that
\* value is the same after the call as before it.
C24_QuotaCheckReadsOnly ==
    [][/\ Served("api_user_stats") =>
             /\ documents' = documents
             /\ documents_created' = documents_created
             /\ files' = files
             /\ worker' = worker
             /\ reply'.status = "ok" =>
                   /\ reply'.body.can_create_document
                         = can_create_document(reply'.body.user)
                   /\ \A u \in Users :
                         can_create_document(u)' = can_create_document(u)
       /\ \A w \in Workers :
             (worker[w].pc = "check" /\ worker'[w].pc # "check") =>
                /\ documents' = documents
                /\ documents_created' = documents_created
                /\ files' = files]_vars

C24_Witness ==
    /\ nsite = 2
    /\ reply.route = "api_user_stats" /\ reply.status = "ok"
    /\ reply.body.can_create_document
    /\ reply.body.documents_this_month = 1
    /\ \E w \in Workers : worker[w].pc = "render" /\ worker[w].user = reply.body.user

AdminRoutes ==
    {"admin.toggle_user_status", "admin.create_template", "admin.edit_template",
     "admin.delete_template", "admin.api_stats"}

\* C26: an admin route requested from a session without admin_id is answered
\* with the redirect to the admin login and has no effect; every admin-only
\* effect happens in a session that has admin_id; admin_id enters a session
\* only by an admin login with the administrator's email and password, and a
\* user login leaves admin_id as it was.
C26_AdminGate ==
    [][/\ ( \/ is_active' # is_active
            \/ templates' # templates
            \/ Served("admin.api_stats") /\ reply'.status = "ok" )
          => session[reply'.client].admin_id # None
       /\ \A c \in Clients :
             ( /\ nsite' = nsite + 1
               /\ reply'.client = c
               /\ reply'.route \in AdminRoutes
               /\ session[c].admin_id = None )
             => /\ reply'.status = "redirect_admin_login"
                /\ UNCHANGED <<is_active, templates, admins, documents, session>>
       /\ \A c \in Clients :
             (session'[c].admin_id # session[c].admin_id /\ session'[c].admin_id # None)
             => /\ Served("admin.login")
                /\ reply'.client = c
                /\ \E i \in 1 .. Len(admins) :
                      /\ admins[i].id = session'[c].admin_id
                      /\ admins[i].email = reply'.body[1]
                      /\ check_password_hash(admins[i].password_hash, reply'.body[2])
       /\ Served("auth.login") =>
             \A c \in Clients : session'[c].admin_id = session[c].admin_id]_vars

C26_Witness ==
    /\ reply.route = "admin.toggle_user_status"
    /\ reply.status = "redirect_admin_login"
    /\ session[reply.client].user_id # "none"
    /\ session[reply.client].admin_id = None
    /\ \E c \in Clients : session[c].admin_id # None
    /\ \A u \in Users : is_active[u]

\* C29: while a user is deactivated no generation request of that user adds
\* a ledger row or increments the user's counter, also when the request
\* comes with a session opened before the deactivation.
C29_DeactivatedCannotGenerate ==
    [][\A u \in Users :
          (~is_active[u] /\ ~is_active'[u]) =>
             /\ Cardinality(RowsOf(u))' = Cardinality(RowsOf(u))
             /\ documents_created'[u] = documents_created[u]]_vars

\* The Admin rows with the configured email.
DefaultAdmins == {i \in 1 .. Len(admins) : admins[i].email = ADMIN_EMAIL}

\* C30: create_app run on a store that holds the default administrator adds
\* no Admin row and no Template row; after any number of runs there is
\* exactly one default administrator and exactly the six default templates.
C30_StartupIdempotent ==
    /\ [][(nstart' = nstart + 1 /\ DefaultAdmins # {})
             => admins' = admins /\ templates' = templates]_vars
    /\ [](nstart >= 1 =>
             /\ Cardinality(DefaultAdmins) = 1
             /\ Len(admins) = 1
             /\ Len(templates) = 6
             /\ \A i \in 1 .. Len(templates) :
                   /\ templates[i].name = default_templates[i].name
                   /\ templates[i].document_type = default_templates[i].document_type
                   /\ templates[i].is_premium = default_templates[i].is_premium)

C30_Witness ==
    /\ nstart = MaxStarts
    /\ Len(admins) = 1 /\ Len(templates) = 6
    /\ Len(documents) > 0
    /\ \E c \in Clients : session[c].admin_id # None

\* A user whose plan and expiry never make the user premium-eligible in
\* the period the clock covers.
NeverPremium(u) ==
    \/ subscription_plan[u] # "premium"
    \/ subscription_expires[u] = None
    \/ subscription_expires[u] <= InitClock

RowsInMonth(u, m) == {i \in RowsOf(u) : Month(documents[i].created_at) = m}

\* C27: when the requests of a user who is never premium-eligible are
\* handled one at a time, the user never owns more than 5 ledger rows
\* created in one calendar month.
C27_SerialMonthlyCap ==
    \A u \in Users :
        NeverPremium(u) =>
           \A m \in 0 .. Month(MaxClock) : Cardinality(RowsInMonth(u, m)) <= MonthlyLimit

C27_Witness ==
    /\ Done(SerialWorker)
    /\ worker[SerialWorker].result = "quota"
    /\ NeverPremium(worker[SerialWorker].user)
    /\ Cardinality(RowsInMonth(worker[SerialWorker].user, Month(clock))) = MonthlyLimit
    /\ Len(documents) = MonthlyLimit
    /\ documents[MonthlyLimit].created_at > documents[1].created_at

\* C28: the file_type of every committed row, and the extension of its file
\* name, is the format of the file the composer produced, for every value of
\* the request's format field.
C28_DeclaredFormatIsProduced ==
    \A i \in 1 .. Len(documents) :
        LET d == documents[i]
        IN  /\ d.file_type = produced_format(d.document_type, d.file_type)
            /\ d.file_path[4] = produced_format(d.document_type, d.file_type)

\* C23: the payload snapshot of a row decodes to the composition inputs of
\* that artifact: for a QR code the type, the content fields and the
\* rendering options, for each certificate of a bulk request the fields of
\* that one certificate; composing from the decoded snapshot gives the
\* content that was composed.
C23_SnapshotRoundTrip ==
    /\ (call.fn = "qr_data_json" /\ call.done) =>
          LET back == json_loads_qr(call.out.data_json)
          IN  /\ back.data.type = call.arg.data.type
              /\ back.size = call.arg.size
              /\ back.format = call.arg.format
              /\ call.out.recomposed = call.out.composed
    /\ (call.fn = "cert_data_json" /\ call.done) =>
          LET names == NonBlank(call.arg.bulk_names)
          IN  /\ Len(call.out) = Len(names)
              /\ \A k \in 1 .. Len(names) :
                    /\ call.out[k].composed.recipient_name = Text(strip(names[k]))
                    /\ call.out[k].recomposed = call.out[k].composed

\* ---- the content a request composes
\* The fields a well-formed request of each kind is filled with.
ResumeExample ==
    [summary |-> Text(<<"s">>), experience |-> <<"x">>, education |-> <<"x">>,
     skills |-> <<>>, projects |-> <<>>, certifications |-> <<"x">>]

CertificateExample ==
    [recipient_name |-> Text(NameA), course_name |-> Text(<<"TLA">>),
     organization |-> Absent, bulk_names |-> <<>>]

compose_stamped(w) ==
    LET r == worker[w].req
    IN  CASE r.kind = "invoice" ->
               [number |-> Text(<<"INV", worker[w].loaded + 1>>),
                figures |-> invoice_totals(InvoiceExample)]
          [] r.kind = "qrcode" ->
               [content |-> IF r.payload = "missing" THEN Absent ELSE qr_content(WifiExample),
                format |-> r.format]
          [] r.kind = "resume" -> [sections |-> resume_story(ResumeExample)]
          [] OTHER ->
               certificate_fields(
                  IF IsBulk(r)
                  THEN [CertificateExample EXCEPT
                           !.recipient_name = Text(strip(r.bulk_names[worker[w].idx]))]
                  ELSE CertificateExample)

\* What the handler of worker w's request gives its composer and the
\* composer draws from it: generate_invoice_pdf(invoice_data, ...),
\* generate_qr_code(qr_content, ...), generate_resume_pdf(resume_data, ...),
\* generate_certificate_pdf(cert_data, ...).  Nothing but the payload is read.
compose(w) ==
    LET r == worker[w].req
    IN  CASE r.kind = "invoice" ->
               [number |-> IF r.payload = "missing" THEN Absent ELSE Text(InvoiceNumber),
                figures |-> invoice_totals(InvoiceExample)]
          [] r.kind = "qrcode" ->
               [content |-> IF r.payload = "missing" THEN Absent ELSE qr_content(WifiExample),
                format |-> r.format]
          [] r.kind = "resume" -> [sections |-> resume_story(ResumeExample)]
          [] OTHER ->
               certificate_fields(
                  IF IsBulk(r)
                  THEN [CertificateExample EXCEPT
                           !.recipient_name = Text(strip(r.bulk_names[worker[w].idx]))]
                  ELSE CertificateExample)

\* Two workers about to compose for the same kind, payload and template.
SameComposition(w1, w2) ==
    /\ w1 # w2
    /\ worker[w1].pc = "render" /\ worker[w2].pc = "render"
    /\ worker[w1].req = worker[w2].req
    /\ worker[w1].idx = worker[w2].idx

====
